---- MODULE Spec2Model ----
\* A model of go-lmsensors: the enumeration sweep Get(), the classification of
\* one feature Feature.Sensor(), the error aggregate of errors.go, and the
\* single-chip lookup GetChip() with the chip identity string ChipPtr.Name().
\*
\* Strings the program only compares or concatenates (labels, adapter names)
\* are TLA+ strings.  Strings the program formats and parses (chip names, bus
\* names, addresses, hwmon name files) are sequences of one-character strings.
EXTENDS Integers, Sequences, FiniteSets, TLC

\* ---------------------------------------------------------------- bounds
MaxChips == 2
MaxFeatures == 2
MaxSubs == 2
MaxNr == 1

\* ------------------------------------------------------- program constants
\* LmSensorType (lmsensors.go)
Voltage == 0
Fan == 1
Temperature == 2
Power == 3
Current == 5
Intrusion == 17

\* LmTempType Unknown = math.MaxInt32
Unknown == 2147483647

\* SensorErrCode (errors.go); the values are those of <sensors/error.h>, negated
ErrSensorWildcards == -1
ErrSensorAccessR == -3
ErrSensorChipName == -6
ErrSensorIO == -10
ErrSensorAny == 2147483647

\* bus.Type (bus/type.go), the same numbers as C.SENSORS_BUS_TYPE_*
SENSORS_BUS_TYPE_ANY == -1
SENSORS_BUS_TYPE_I2C == 0
SENSORS_BUS_TYPE_ISA == 1
SENSORS_BUS_TYPE_PCI == 2
SENSORS_BUS_TYPE_SPI == 3
SENSORS_BUS_TYPE_VIRTUAL == 4
SENSORS_BUS_TYPE_ACPI == 5
SENSORS_BUS_TYPE_HID == 6
SENSORS_BUS_TYPE_MDIO == 7
SENSORS_BUS_TYPE_SCSI == 8

SENSORS_BUS_NR_ANY == -1
SENSORS_CHIP_NAME_ADDR_ANY == -1

\* sf.SubFeature tags.  The zero value of sf.SubFeature is the tag of
\* sensorErr{} (ErrSubFeatureNotExist); in libsensors tag 0 is IN_INPUT.
IN_INPUT == "IN_INPUT"
TEMP_INPUT == "TEMP_INPUT"
TEMP_TYPE == "TEMP_TYPE"
INTRUSION_ALARM == "INTRUSION_ALARM"
INTRUSION_BEEP == "INTRUSION_BEEP"
SubFeatureZero == IN_INPUT

\* ------------------------------------------------------------------ errors
\* A Go error value is a record with a kind; NilErr is the nil error.
NilErr == [kind |-> "nil"]

sensorErr(sub, cerr) == [kind |-> "sensorErr", sub |-> sub, cerr |-> cerr]

SensorErrCode(code) == [kind |-> "SensorErrCode", code |-> code]

SubFeatureErr(sub) == [kind |-> "SubFeature", sub |-> sub]

ErrSubFeatureNotExist == sensorErr(SubFeatureZero, 0)

wrapError(msg, err) == [msg |-> msg, err |-> err]

wrapErrors(w) == [kind |-> "wrapErrors", list |-> w]

\* sensorErr.Code()
Code(s) == s.cerr

\* sensorErr.SubFeature()
SubFeature(s) == s.sub

\* sensorErr.Is(err): the type switch over the target
sensorErrIsNoAny(s, target) ==
    CASE target.kind = "SensorErrCode" -> target.code = s.cerr
      [] target.kind = "SubFeature" -> target.sub = s.sub
      [] target.kind = "sensorErr" -> s = target
      [] OTHER -> FALSE

sensorErrIs(s, target) ==
    CASE target.kind = "SensorErrCode" ->
            IF target.code = ErrSensorAny THEN TRUE ELSE target.code = s.cerr
      [] target.kind = "SubFeature" -> target.sub = s.sub
      [] target.kind = "sensorErr" -> s = target
      [] OTHER -> FALSE

\* wrapErrors.Unwrap(): the causes, in order
UnwrapNone(w) == << >>

Unwrap(w) == [i \in 1..Len(w.list) |-> w.list[i].err]

\* collectError(it): every yielded pair is appended (the range loop never
\* breaks, so yield always returns true); nil when nothing was yielded.
collectErrorAlways(pairs) == wrapErrors(pairs)

collectError(pairs) == IF Len(pairs) = 0 THEN NilErr ELSE wrapErrors(pairs)

\* errors.Is(err, target) of the standard library, on the error values of this
\* package: equality, then the Is method, then the tree under Unwrap() []error.
RECURSIVE ErrorsIs(_, _)
ErrorsIs(err, target) ==
    IF err.kind = "nil" THEN FALSE
    ELSE IF err = target THEN TRUE
    ELSE IF err.kind = "sensorErr" THEN sensorErrIs(err, target)
    ELSE IF err.kind = "wrapErrors"
         THEN \E i \in 1..Len(Unwrap(err)) : ErrorsIs(Unwrap(err)[i], target)
    ELSE FALSE

\* errors.As(err, &se) with se a SensorErr: the first sensorErr of the tree in
\* depth-first order, or NilErr when As returns false.
RECURSIVE ErrorsAs(_)
ErrorsAs(err) ==
    IF err.kind = "sensorErr" THEN err
    ELSE IF err.kind = "wrapErrors"
         THEN LET found == {i \in 1..Len(Unwrap(err)) : ErrorsAs(Unwrap(err)[i]) # NilErr}
              IN IF found = {} THEN NilErr
                 ELSE ErrorsAs(Unwrap(err)[CHOOSE i \in found : \A j \in found : i <= j])
    ELSE NilErr

\* ------------------------------------------------------------ the sensors
\* A Sensor interface value; NilSensor is the nil interface.
NilSensor == [kind |-> "nil"]

TempSensor(base, tt) ==
    [kind |-> "TempSensor", Name |-> base.Name, Value |-> base.Value, TempType |-> tt]

VoltageSensor(base) == [kind |-> "VoltageSensor", Name |-> base.Name, Value |-> base.Value]

FanSensor(base) == [kind |-> "FanSensor", Name |-> base.Name, Value |-> base.Value]

CurrentSensor(base) == [kind |-> "CurrentSensor", Name |-> base.Name, Value |-> base.Value]

IntrusionSensor(name, beep, alarm) ==
    [kind |-> "IntrusionSensor", Name |-> name, Beep |-> beep, alarm |-> alarm]

UnimplementedSensor(feat) == [kind |-> "UnimplementedSensor", Feature |-> feat]

\* Sensor.Alarm()
Alarm(s) == IF s.kind = "IntrusionSensor" THEN s.alarm ELSE FALSE

\* IntrusionSensor.Rendered(): strconv.FormatBool(s.Beep)
Rendered(s) == IF s.Beep THEN "true" ELSE "false"

\* ------------------------------------------------------------ the features
\* A feature of the backend: its type tag, its label and its subfeatures in
\* enumeration order.  A subfeature carries its tag and what reading it gives:
\* cerr = 0 and the value, or the backend's status code.
Label(feat) == feat.label

Type(feat) == feat.type

\* Feature.getValue(sf0)
getValue(sf0) ==
    IF sf0.cerr # 0
    THEN [val |-> 0, err |-> sensorErr(sf0.type, sf0.cerr)]
    ELSE [val |-> sf0.val, err |-> NilErr]

\* Feature.GetValue(sub): sensors_get_subfeature finds the subfeature by tag
GetValue(feat, sub) ==
    LET hits == {i \in 1..Len(feat.subs) : feat.subs[i].type = sub}
    IN IF hits = {}
       THEN [val |-> 0, err |-> ErrSubFeatureNotExist]
       ELSE getValue(feat.subs[CHOOSE i \in hits : \A j \in hits : i <= j])

\* The reading the specification describes: the first subfeature that reads.
FirstReadable(feat) ==
    LET ok == {i \in 1..Len(feat.subs) : feat.subs[i].cerr = 0}
    IN IF ok = {}
       THEN [sub |-> SubFeatureZero, val |-> 0, err |-> ErrSubFeatureNotExist]
       ELSE LET k == CHOOSE i \in ok : \A j \in ok : i <= j
            IN [sub |-> feat.subs[k].type, val |-> feat.subs[k].val, err |-> NilErr]

\* Feature.FirstValue(): the subfeature sensors_get_all_subfeatures gives first
FirstValue(feat) ==
    IF Len(feat.subs) = 0
    THEN [sub |-> SubFeatureZero, val |-> 0, err |-> ErrSubFeatureNotExist]
    ELSE LET r == getValue(feat.subs[1])
         IN [sub |-> feat.subs[1].type, val |-> r.val, err |-> r.err]

\* The switch of Feature.Sensor() with the secondary error not shadowed
DispatchPropagating(feat, base) ==
    CASE Type(feat) = Temperature ->
            LET r == GetValue(feat, TEMP_TYPE)
            IN [reading |-> TempSensor(base, IF r.err = NilErr THEN r.val ELSE Unknown),
                err |-> r.err]
      [] Type(feat) = Voltage -> [reading |-> VoltageSensor(base), err |-> NilErr]
      [] Type(feat) = Fan -> [reading |-> FanSensor(base), err |-> NilErr]
      [] Type(feat) = Current -> [reading |-> CurrentSensor(base), err |-> NilErr]
      [] Type(feat) = Intrusion ->
            LET r == GetValue(feat, INTRUSION_BEEP)
            IN [reading |-> NilSensor, err |-> r.err]
      [] OTHER -> [reading |-> UnimplementedSensor(feat), err |-> NilErr]

\* The switch of Feature.Sensor() without its default branch
DispatchNoDefault(feat, base) ==
    CASE Type(feat) = Temperature ->
            LET r == GetValue(feat, TEMP_TYPE)
            IN [reading |-> TempSensor(base, IF r.err = NilErr THEN r.val ELSE Unknown),
                err |-> NilErr]
      [] Type(feat) = Voltage -> [reading |-> VoltageSensor(base), err |-> NilErr]
      [] Type(feat) = Fan -> [reading |-> FanSensor(base), err |-> NilErr]
      [] Type(feat) = Current -> [reading |-> CurrentSensor(base), err |-> NilErr]
      [] OTHER -> [reading |-> NilSensor, err |-> NilErr]

\* The intrusion sensor the Intrusion branch builds in its local variable `is`
IntrusionOf(feat, base) ==
    LET r == GetValue(feat, INTRUSION_BEEP)
    IN IntrusionSensor(base.Name, r.val # 0, base.Value # 0)

\* The switch of Feature.Sensor().  In the Temperature branch `value, err :=`
\* declares a new err, so the named result err stays nil.  The Intrusion
\* branch builds `is` and never assigns it to the result `reading`.
Dispatch(feat, base) ==
    CASE Type(feat) = Temperature ->
            LET r == GetValue(feat, TEMP_TYPE)
            IN [reading |-> TempSensor(base, IF r.err = NilErr THEN r.val ELSE Unknown),
                err |-> NilErr]
      [] Type(feat) = Voltage -> [reading |-> VoltageSensor(base), err |-> NilErr]
      [] Type(feat) = Fan -> [reading |-> FanSensor(base), err |-> NilErr]
      [] Type(feat) = Current -> [reading |-> CurrentSensor(base), err |-> NilErr]
      [] Type(feat) = Intrusion ->
            LET is == IntrusionOf(feat, base)
            IN [reading |-> NilSensor, err |-> NilErr]
      [] OTHER -> [reading |-> UnimplementedSensor(feat), err |-> NilErr]

\* Feature.Sensor()
Sensor(feat) ==
    LET fv == FirstValue(feat)
        base == [Name |-> Label(feat), Value |-> fv.val]
    IN IF fv.err # NilErr
       THEN [reading |-> NilSensor, err |-> fv.err]
       ELSE Dispatch(feat, base)

\* ------------------------------------------------------- the chip identity
\* A C string pointer that is NULL (also SENSORS_CHIP_NAME_PREFIX_ANY)
NULL == <<"NULL">>

HexChars == <<"0", "1", "2", "3", "4", "5", "6", "7", "8", "9", "a", "b", "c", "d", "e", "f">>

UpperChars == <<"A", "C", "D", "H", "I", "M", "N", "O", "P", "R", "S", "T", "U", "V", "Y", "L">>

LowerChars == <<"a", "c", "d", "h", "i", "m", "n", "o", "p", "r", "s", "t", "u", "v", "y", "l">>

\* strings.ToLower
ToLower(s) ==
    [i \in 1..Len(s) |->
        IF \E k \in 1..Len(UpperChars) : UpperChars[k] = s[i]
        THEN LowerChars[CHOOSE k \in 1..Len(UpperChars) : UpperChars[k] = s[i]]
        ELSE s[i]]

\* strconv.FormatInt(n, base) and the digits of fmt's %x, for n >= 0
RECURSIVE FormatInt(_, _)
FormatInt(n, base) ==
    IF n < base THEN <<HexChars[n + 1]>>
    ELSE FormatInt(n \div base, base) \o <<HexChars[(n % base) + 1]>>

\* fmt.Sprintf("%0<width>x", n): zero padding on the left up to width
RECURSIVE PadZero(_, _)
PadZero(s, width) == IF Len(s) >= width THEN s ELSE PadZero(<<"0">> \o s, width)

\* bus.Type.String(), as generated by stringer
TypeString(t) ==
    CASE t = SENSORS_BUS_TYPE_ANY -> <<"A", "N", "Y">>
      [] t = SENSORS_BUS_TYPE_I2C -> <<"I", "2", "C">>
      [] t = SENSORS_BUS_TYPE_ISA -> <<"I", "S", "A">>
      [] t = SENSORS_BUS_TYPE_PCI -> <<"P", "C", "I">>
      [] t = SENSORS_BUS_TYPE_SPI -> <<"S", "P", "I">>
      [] t = SENSORS_BUS_TYPE_VIRTUAL -> <<"V", "I", "R", "T", "U", "A", "L">>
      [] t = SENSORS_BUS_TYPE_ACPI -> <<"A", "C", "P", "I">>
      [] t = SENSORS_BUS_TYPE_HID -> <<"H", "I", "D">>
      [] t = SENSORS_BUS_TYPE_MDIO -> <<"M", "D", "I", "O">>
      [] t = SENSORS_BUS_TYPE_SCSI -> <<"S", "C", "S", "I">>

\* ChipPtr.hasNR() taking only I2C and SPI for the numbered families
hasNROnlyI2CSPI(chip) == chip.btype \in {SENSORS_BUS_TYPE_I2C, SENSORS_BUS_TYPE_SPI}

\* ChipPtr.hasNR()
hasNR(chip) ==
    chip.btype \in {SENSORS_BUS_TYPE_I2C, SENSORS_BUS_TYPE_SPI,
                    SENSORS_BUS_TYPE_HID, SENSORS_BUS_TYPE_SCSI}

\* ChipPtr.hasWildcards() without the bus number test
hasWildcardsNoNr(chip) ==
    \/ chip.prefix = NULL
    \/ chip.btype = SENSORS_BUS_TYPE_ANY
    \/ chip.addr = SENSORS_CHIP_NAME_ADDR_ANY

\* ChipPtr.hasWildcards()
hasWildcards(chip) ==
    \/ chip.prefix = NULL
    \/ chip.btype = SENSORS_BUS_TYPE_ANY
    \/ chip.nr = SENSORS_BUS_NR_ANY
    \/ chip.addr = SENSORS_CHIP_NAME_ADDR_ANY

\* ChipPtr.Prefix()
Prefix(chip) == chip.prefix

\* ChipPtr.Path(); 0 is the NULL path, i > 0 is the directory of hwmon entry i
Path(chip) == chip.path

\* ChipPtr.Bus()
Bus(chip) ==
    LET bus == ToLower(TypeString(chip.btype))
    IN IF hasNR(chip) THEN bus \o <<"-">> \o FormatInt(chip.nr, 10) ELSE bus

\* ChipPtr.addrfmt(): the width of the %x verb (0 for plain %x)
addrfmt(chip) ==
    CASE chip.btype \in {SENSORS_BUS_TYPE_ISA, SENSORS_BUS_TYPE_PCI} -> 4
      [] chip.btype = SENSORS_BUS_TYPE_I2C -> 2
      [] OTHER -> 0

\* ChipPtr.Addr()
Addr(chip) == PadZero(FormatInt(chip.addr, 16), addrfmt(chip))

\* ChipPtr.Name(): strings.Join of prefix, bus and address with "-"
Name(chip) == Prefix(chip) \o <<"-">> \o Bus(chip) \o <<"-">> \o Addr(chip)

\* ChipPtr.Adapter()
Adapter(chip) == chip.adapter

\* ------------------------------------------------ parsing a chip name
\* sensors_parse_chip_name of the backend, on names made of a prefix, "-", "*",
\* lower-case bus names and unsigned digits (no sign, blank or 0x), as in the
\* format GetChip's comment refers to: prefix-bus[-nr]-addr.
StartsWith(s, p) == Len(s) >= Len(p) /\ SubSeq(s, 1, Len(p)) = p

\* strchr: the index of the first c in s, 0 when there is none
IndexOf(s, c) ==
    LET hits == {i \in 1..Len(s) : s[i] = c}
    IN IF hits = {} THEN 0 ELSE CHOOSE i \in hits : \A j \in hits : i <= j

From(s, i) == SubSeq(s, i, Len(s))

DigitVal(c, base) ==
    LET hits == {k \in 1..base : HexChars[k] = c}
    IN IF hits = {} THEN -1 ELSE (CHOOSE k \in hits : TRUE) - 1

\* strtoul(s, &end, base): the value of the leading digits and the rest
RECURSIVE Strtoul(_, _, _)
Strtoul(s, base, acc) ==
    IF s = << >> \/ DigitVal(s[1], base) = -1
    THEN [val |-> acc, rest |-> s]
    ELSE Strtoul(Tail(s), base, acc * base + DigitVal(s[1], base))

\* the conversion of an unsigned long to the short bus.nr
ToShort(v) == LET m == v % 65536 IN IF m >= 32768 THEN m - 65536 ELSE m

\* the bus names in the order the parser tries them; strncmp over the length
\* of the name's bus part accepts any leading part of a bus name
BusNames ==
    << <<SENSORS_BUS_TYPE_I2C, <<"i", "2", "c">> >>,
       <<SENSORS_BUS_TYPE_ISA, <<"i", "s", "a">> >>,
       <<SENSORS_BUS_TYPE_PCI, <<"p", "c", "i">> >>,
       <<SENSORS_BUS_TYPE_SPI, <<"s", "p", "i">> >>,
       <<SENSORS_BUS_TYPE_VIRTUAL, <<"v", "i", "r", "t", "u", "a", "l">> >>,
       <<SENSORS_BUS_TYPE_ACPI, <<"a", "c", "p", "i">> >>,
       <<SENSORS_BUS_TYPE_HID, <<"h", "i", "d">> >>,
       <<SENSORS_BUS_TYPE_MDIO, <<"m", "d", "i", "o">> >>,
       <<SENSORS_BUS_TYPE_SCSI, <<"s", "c", "s", "i">> >> >>

ParseBusType(part) ==
    LET hits == {k \in 1..Len(BusNames) : StartsWith(BusNames[k][2], part)}
    IN IF hits = {} THEN SENSORS_BUS_TYPE_ANY
       ELSE BusNames[CHOOSE k \in hits : \A j \in hits : k <= j][1]

\* new(C.sensors_chip_name): the zeroed struct
ZeroChipName == [prefix |-> NULL, btype |-> 0, nr |-> 0, addr |-> 0, path |-> 0]

\* the last part of the name: "*" or the address in hex (the names of the
\* model have fewer than 8 hex digits, so the value fits the int addr)
ParseAddr(res, name) ==
    IF name = <<"*">>
    THEN [cerr |-> 0, chip |-> [res EXCEPT !.addr = SENSORS_CHIP_NAME_ADDR_ANY]]
    ELSE LET r == Strtoul(name, 16, 0)
             chip == [res EXCEPT !.addr = r.val]
         IN IF name = << >> \/ r.rest # << >> \/ chip.addr < 0
            THEN [cerr |-> ErrSensorChipName, chip |-> chip]
            ELSE [cerr |-> 0, chip |-> chip]

\* the bus number, for the families that have one
ParseNr(res, name) ==
    IF res.btype \in {SENSORS_BUS_TYPE_I2C, SENSORS_BUS_TYPE_SPI,
                      SENSORS_BUS_TYPE_HID, SENSORS_BUS_TYPE_SCSI}
    THEN IF StartsWith(name, <<"*", "-">>)
         THEN ParseAddr([res EXCEPT !.nr = SENSORS_BUS_NR_ANY], From(name, 3))
         ELSE LET r == Strtoul(name, 10, 0)
                  chip == [res EXCEPT !.nr = ToShort(r.val)]
              IN IF name = << >> \/ r.rest = << >> \/ r.rest[1] # "-" \/ chip.nr < 0
                 THEN [cerr |-> ErrSensorChipName, chip |-> chip]
                 ELSE ParseAddr(chip, Tail(r.rest))
    ELSE ParseAddr([res EXCEPT !.nr = SENSORS_BUS_NR_ANY], name)

\* the bus part: a sole "*", or a bus family, "-" and the rest
ParseBus(res, name) ==
    IF name = <<"*">>
    THEN [cerr |-> 0,
          chip |-> [res EXCEPT !.btype = SENSORS_BUS_TYPE_ANY,
                               !.nr = SENSORS_BUS_NR_ANY,
                               !.addr = SENSORS_CHIP_NAME_ADDR_ANY]]
    ELSE LET dash == IndexOf(name, "-")
             t == ParseBusType(SubSeq(name, 1, dash - 1))
         IN IF dash = 0 \/ t = SENSORS_BUS_TYPE_ANY
            THEN [cerr |-> ErrSensorChipName, chip |-> res]
            ELSE ParseNr([res EXCEPT !.btype = t], From(name, dash + 1))

\* C.sensors_parse_chip_name(cname, ch.ptr) on the zeroed struct
sensors_parse_chip_name(name) ==
    IF StartsWith(name, <<"*", "-">>)
    THEN ParseBus(ZeroChipName, From(name, 3))
    ELSE LET dash == IndexOf(name, "-")
         IN IF dash = 0
            THEN [cerr |-> ErrSensorChipName, chip |-> ZeroChipName]
            ELSE ParseBus([ZeroChipName EXCEPT !.prefix = SubSeq(name, 1, dash - 1)],
                          From(name, dash + 1))

\* ------------------------------------------------------- the hwmon table
\* hw is the list of /sys/class/hwmon entries, each the content of its name
\* file (<< >> when the file cannot be read or is empty).
\* ChipPtr.searchSetPath(): the first entry whose name, less its last byte,
\* is the prefix; the path stays as it was when there is none.
searchSetPath(chip, hw) ==
    LET hits == {i \in 1..Len(hw) :
                    /\ Len(hw[i]) # 0
                    /\ SubSeq(hw[i], 1, Len(hw[i]) - 1) = Prefix(chip)}
    IN IF hits = {} THEN chip
       ELSE [chip EXCEPT !.path = CHOOSE i \in hits : \A j \in hits : i <= j]

\* ChipPtr.Free(): the C strings it releases
Free(chip) ==
    (IF chip.path # 0 THEN {"path"} ELSE {}) \cup
    (IF chip.prefix # NULL THEN {"prefix"} ELSE {})

\* the zero ChipPtr{}
ZeroChipPtr == [ptr |-> "nil"]

\* GetChip with the bus number cleared for every bus family
GetChipClearNr(name, hw) ==
    LET p == sensors_parse_chip_name(name)
        ch == [p.chip EXCEPT !.nr = 0]
        found == searchSetPath(ch, hw)
    IN IF p.cerr # 0
       THEN [chip |-> ZeroChipPtr, err |-> SensorErrCode(p.cerr), frees |-> <<Free(p.chip)>>]
       ELSE IF hasWildcards(ch)
       THEN [chip |-> ZeroChipPtr, err |-> SensorErrCode(ErrSensorWildcards),
             frees |-> <<Free(ch)>>]
       ELSE IF found.path = 0
       THEN [chip |-> ZeroChipPtr, err |-> SensorErrCode(ErrSensorChipName),
             frees |-> <<Free(found)>>]
       ELSE [chip |-> found, err |-> NilErr, frees |-> << >>]

\* GetChip(name): the handle, the error, and the calls of Free it made, each
\* with the C strings that call released.
GetChip(name, hw) ==
    LET p == sensors_parse_chip_name(name)
        ch == IF ~hasNR(p.chip) THEN [p.chip EXCEPT !.nr = 0] ELSE p.chip
        found == searchSetPath(ch, hw)
    IN IF p.cerr # 0
       THEN [chip |-> ZeroChipPtr, err |-> SensorErrCode(p.cerr), frees |-> <<Free(p.chip)>>]
       ELSE IF hasWildcards(ch)
       THEN [chip |-> ZeroChipPtr, err |-> SensorErrCode(ErrSensorWildcards),
             frees |-> <<Free(ch)>>]
       ELSE IF found.path = 0
       THEN [chip |-> ZeroChipPtr, err |-> SensorErrCode(ErrSensorChipName),
             frees |-> <<Free(found)>>]
       ELSE [chip |-> found, err |-> NilErr, frees |-> << >>]

\* ------------------------------------------------------------ the sweep
\* ch.Sensors[name] = reading on a Go map
MapPut(m, k, v) == [x \in (DOMAIN m) \cup {k} |-> IF x = k THEN v ELSE m[x]]

\* the loop of ChipPtr.Chip() over chip.Features, from feature i on: the
\* reading is stored under the label whatever err is, then err is yielded
RECURSIVE ChipLoop(_, _, _, _)
ChipLoop(feats, i, sensors, yielded) ==
    IF i > Len(feats)
    THEN [Sensors |-> sensors, yielded |-> yielded]
    ELSE LET r == Sensor(feats[i])
             name == Label(feats[i])
         IN ChipLoop(feats, i + 1, MapPut(sensors, name, r.reading),
                     IF r.err # NilErr
                     THEN Append(yielded, wrapError(<<"feature=", name>>, r.err))
                     ELSE yielded)

\* ChipPtr.Chip()
Chip(chip) ==
    LET r == ChipLoop(chip.feats, 1, << >>, << >>)
    IN [ch |-> [ID |-> Name(chip), Type |-> Prefix(chip), Bus |-> Bus(chip),
                Address |-> Addr(chip), Adapter |-> Adapter(chip),
                Sensors |-> r.Sensors],
        err |-> collectError(r.yielded)]

\* the loop of Get() over Chips, from chip i on
RECURSIVE GetLoop(_, _, _, _)
GetLoop(cs, i, chipmap, yielded) ==
    IF i > Len(cs)
    THEN [Chips |-> chipmap, yielded |-> yielded]
    ELSE LET r == Chip(cs[i])
         IN GetLoop(cs, i + 1, MapPut(chipmap, r.ch.ID, r.ch),
                    IF r.err # NilErr
                    THEN Append(yielded, wrapError(<<"chip=", r.ch.ID>>, r.err))
                    ELSE yielded)

\* Get()
Get(cs) ==
    LET r == GetLoop(cs, 1, << >>, << >>)
    IN [sys |-> [Chips |-> r.Chips], err |-> collectError(r.yielded)]

\* ------------------------------------------------------------- the worlds
\* What the backend has detected is fixed between Init() and Cleanup(); the
\* model draws it in its initial state.
SeqsUpTo(S, n) == UNION {[1..k -> S] : k \in 0..n}

Labels == {"in0", "in1"}

\* what reading one subfeature gives
SubOutcomes(tags) ==
    [type : tags, cerr : {0}, val : {0, 1}] \cup
    [type : tags, cerr : {ErrSensorAccessR, ErrSensorIO}, val : {0}]

\* one feature with up to MaxSubs subfeatures, of every type tag
RichFeatures ==
    [type : {Temperature, Voltage, Fan, Current, Intrusion, Power},
     label : {"in0"},
     subs : SeqsUpTo(SubOutcomes({IN_INPUT, TEMP_TYPE, INTRUSION_BEEP}), MaxSubs)]

\* the features of the worlds with several chips and features: voltage
\* features that read, fail to read or have no subfeature, and intrusion
\* features that read
SweepFeatures ==
    [type : {Voltage},
     label : Labels,
     subs : {<< >>,
             <<[type |-> IN_INPUT, cerr |-> 0, val |-> 1]>>,
             <<[type |-> IN_INPUT, cerr |-> ErrSensorAccessR, val |-> 0]>>}] \cup
    [type : {Intrusion},
     label : Labels,
     subs : {<<[type |-> INTRUSION_ALARM, cerr |-> 0, val |-> 1]>>}]

\* n feature lists with at most budget features in all
RECURSIVE FeatureLists(_, _)
FeatureLists(n, budget) ==
    IF n = 0 THEN {<< >>}
    ELSE UNION {{<<fl>> \o w : fl \in [1..k -> SweepFeatures],
                               w \in FeatureLists(n - 1, budget - k)} : k \in 0..budget}

\* the k-th detected chip of a sweep world; its hwmon entry is entry k
SweepChip(k, feats) ==
    [prefix |-> <<"k", HexChars[k + 1]>>, btype |-> SENSORS_BUS_TYPE_ISA, nr |-> 0,
     addr |-> 656, path |-> k, adapter |-> "ISA adapter", feats |-> feats]

SweepWorlds ==
    {[k \in 1..Len(w) |-> SweepChip(k, w[k])] :
        w \in UNION {FeatureLists(n, MaxFeatures) : n \in 0..MaxChips}}

RichWorlds == {<<SweepChip(1, <<f>>)>> : f \in RichFeatures}

\* the chip identities of the lookup worlds: every bus family, a bus number
\* where the family has one
Prefixes == {<<"k", "8">>, <<"n", "c", "t">>}

Addrs == {46, 656}

BusTypes == SENSORS_BUS_TYPE_I2C..SENSORS_BUS_TYPE_SCSI

\* the bus families the backend numbers per adapter; the others have nr 0
Numbered ==
    {SENSORS_BUS_TYPE_I2C, SENSORS_BUS_TYPE_SPI, SENSORS_BUS_TYPE_HID, SENSORS_BUS_TYPE_SCSI}

Identities ==
    {id \in [prefix : Prefixes, btype : BusTypes, nr : 0..MaxNr, addr : Addrs] :
        id.btype \in Numbered \/ id.nr = 0}

RECURSIVE SetToSeq(_)
SetToSeq(S) ==
    IF S = {} THEN << >>
    ELSE LET x == CHOOSE y \in S : TRUE IN <<x>> \o SetToSeq(S \ {x})

\* no chip, one chip or two chips detected
IdentitySets == {{a, b} : a, b \in Identities} \cup {{}}

LookupChip(id, k) ==
    [prefix |-> id.prefix, btype |-> id.btype, nr |-> id.nr, addr |-> id.addr,
     path |-> k, adapter |-> "adapter", feats |-> << >>]

LookupWorlds ==
    {[k \in 1..Len(ids) |-> LookupChip(ids[k], k)] : ids \in {SetToSeq(S) : S \in IdentitySets}}

\* the hwmon table of a world: entry k is the name file of chip k
HwmonOf(cs) == [k \in 1..Len(cs) |-> cs[k].prefix \o <<"\n">>]

\* names looked up besides those of the detected chips
OtherNames ==
    {<<"k", "8", "-", "*">>,
      <<"*", "-", "i", "s", "a", "-", "0", "2", "9", "0">>,
      <<"k", "8", "-", "i", "2", "c", "-", "*", "-", "2", "e">>,
      <<"k", "8", "-", "i", "2", "c", "-", "0", "-", "*">>,
      <<"k", "8", "-", "i", "s", "a", "-", "*">>,
      <<"k", "8">>,
      <<"k", "8", "-", "f", "o", "o", "-", "0", "2", "9", "0">>,
      <<"k", "8", "-", "i", "s", "a", "-", "2", "9", "g">>,
      <<"z", "z", "-", "i", "s", "a", "-", "0", "2", "9", "0">>,
      <<"k", "8", "-", "i", "s", "a", "-", "0", "2", "9", "0">>,
      <<"k", "8", "-", "i", "2", "c", "-", "1", "-", "2", "e">>,
      <<"*", "-", "*">>}

NameInputs(cs) == {Name(cs[k]) : k \in 1..Len(cs)} \cup OtherNames

\* ------------------------------------------------------------ the state
VARIABLES chips, hwmon, getResult, sensorResult, lookup, owned, op

vars == <<chips, hwmon, getResult, sensorResult, lookup, owned, op>>

NoResult == [done |-> FALSE]

InitResults ==
    /\ hwmon = HwmonOf(chips)
    /\ getResult = NoResult
    /\ sensorResult = NoResult
    /\ lookup = NoResult
    /\ owned = {}
    /\ op = "Init"

\* after Init(): the sweep worlds and the one-feature worlds
Init ==
    /\ chips \in SweepWorlds \cup RichWorlds
    /\ InitResults

\* after Init(): the lookup worlds
InitLookup ==
    /\ chips \in LookupWorlds
    /\ InitResults

\* info, err := Get()
CallGet ==
    /\ LET r == Get(chips)
       IN getResult' = [done |-> TRUE, sys |-> r.sys, err |-> r.err]
    /\ op' = "Get"
    /\ UNCHANGED <<chips, hwmon, sensorResult, lookup, owned>>

\* reading, err := feat.Sensor() for a feature met in chip.Features
CallSensor ==
    \E c \in 1..Len(chips) : \E f \in 1..Len(chips[c].feats) :
        /\ LET r == Sensor(chips[c].feats[f])
           IN sensorResult' = [done |-> TRUE, chip |-> c, feat |-> f,
                               reading |-> r.reading, err |-> r.err]
        /\ op' = "Sensor"
        /\ UNCHANGED <<chips, hwmon, getResult, lookup, owned>>

\* nchip, err := GetChip(name), the caller having released its former handle
CallGetChip ==
    \E name \in NameInputs(chips) :
        /\ owned = {}
        /\ LET r == GetChip(name, hwmon)
           IN /\ lookup' = [done |-> TRUE, name |-> name, chip |-> r.chip, err |-> r.err,
                            frees |-> r.frees]
              /\ owned' = IF r.err = NilErr THEN {"prefix", "path"} ELSE {}
        /\ op' = "GetChip"
        /\ UNCHANGED <<chips, hwmon, getResult, sensorResult>>

\* nchip.Free() on the handle GetChip returned
CallFree ==
    /\ lookup.done
    /\ lookup.err = NilErr
    /\ owned # {}
    /\ owned' = owned \ Free(lookup.chip)
    /\ op' = "Free"
    /\ UNCHANGED <<chips, hwmon, getResult, sensorResult, lookup>>

Next == CallGet \/ CallSensor

NextLookup == CallGetChip \/ CallFree

Spec == Init /\ [][Next]_vars

SpecLookup == InitLookup /\ [][NextLookup]_vars

\* ------------------------------------------------------------ the claims
\* The claims speak of the world directly: a feature's primary read is the
\* read of its first subfeature, and a feature fails when Sensor() returns an
\* error for it.
Failed(feat) == Sensor(feat).err # NilErr

\* the indices of the failed features of a chip, as an increasing sequence
RECURSIVE Increasing(_)
Increasing(S) ==
    IF S = {} THEN << >>
    ELSE LET m == CHOOSE x \in S : \A y \in S : x <= y IN <<m>> \o Increasing(S \ {m})

FailedIdx(chip) == Increasing({f \in 1..Len(chip.feats) : Failed(chip.feats[f])})

FailingChips(cs) == Increasing({c \in 1..Len(cs) : FailedIdx(cs[c]) # << >>})

RECURSIVE Leaves(_)
Leaves(err) ==
    IF err.kind = "wrapErrors"
    THEN LET n == Len(err.list)
         IN IF n = 0 THEN 0
            ELSE Leaves(err.list[1].err)
                 + Leaves(wrapErrors(SubSeq(err.list, 2, n)))
    ELSE IF err.kind = "nil" THEN 0 ELSE 1

\* C1 (as claimed): after Get(), every detected chip is in System.Chips, and
\* every feature whose classification succeeds, and whose label no later
\* feature of the chip reuses, is in the chip's Sensors map as a usable
\* (non-nil) Sensor, whatever failed elsewhere.
C1_SweepKeepsEverySuccess ==
    getResult.done =>
        \A c \in 1..Len(chips) :
            /\ Name(chips[c]) \in DOMAIN getResult.sys.Chips
            /\ \A f \in 1..Len(chips[c].feats) :
                 LET feat == chips[c].feats[f]
                     sensors == getResult.sys.Chips[Name(chips[c])].Sensors
                 IN (/\ ~Failed(feat)
                     /\ \A g \in (f + 1)..Len(chips[c].feats) :
                            Label(chips[c].feats[g]) # Label(feat))
                    => /\ Label(feat) \in DOMAIN sensors
                       /\ sensors[Label(feat)] # NilSensor

\* the map the claim C2 describes: only successful features are inserted
RECURSIVE SuccessesOnly(_, _, _)
SuccessesOnly(feats, i, sensors) ==
    IF i > Len(feats) THEN sensors
    ELSE SuccessesOnly(feats, i + 1,
                       IF Failed(feats[i]) THEN sensors
                       ELSE MapPut(sensors, Label(feats[i]), Sensor(feats[i]).reading))

\* C2 (as claimed): the Sensors map of a chip is what inserting the successful
\* features alone gives: a failed feature adds no entry and leaves every
\* existing entry, also one of the same label, unchanged.
C2_FailureAddsNoEntry ==
    getResult.done =>
        \A c \in 1..Len(chips) :
            getResult.sys.Chips[Name(chips[c])].Sensors
                = SuccessesOnly(chips[c].feats, 1, << >>)

\* the aggregate of one chip: one entry per failed feature, in order
ChipAggregate(chip) ==
    LET idx == FailedIdx(chip)
    IN wrapErrors([k \in 1..Len(idx) |->
                      wrapError(<<"feature=", Label(chip.feats[idx[k]])>>,
                                Sensor(chip.feats[idx[k]]).err)])

\* all failed features of the world in encounter order, as pairs <<c, f>>
RECURSIVE FailedFrom(_, _)
FailedFrom(cs, c) ==
    IF c > Len(cs) THEN << >>
    ELSE LET idx == FailedIdx(cs[c])
         IN [k \in 1..Len(idx) |-> <<c, idx[k]>>] \o FailedFrom(cs, c + 1)

\* C3 (as claimed): the error of Get() is nil iff no feature failed; else its
\* entries are the failed features one to one, in encounter order, each with
\* the label "feature="+label and the feature's cause.
C3_EntriesAreFeatures ==
    getResult.done =>
        LET failed == FailedFrom(chips, 1)
        IN /\ (getResult.err = NilErr) <=> (failed = << >>)
           /\ getResult.err # NilErr =>
                getResult.err.list =
                    [k \in 1..Len(failed) |->
                        LET feat == chips[failed[k][1]].feats[failed[k][2]]
                        IN wrapError(<<"feature=", Label(feat)>>, Sensor(feat).err)]

\* C3 (amended): the error of Get() is nil iff no feature failed; else it has
\* one entry per chip with a failed feature, in encounter order, labelled
\* "chip="+ID, whose cause is that chip's aggregate: one entry per failed
\* feature of the chip, in order, labelled "feature="+label with the
\* feature's cause.  The causes at the leaves are as many as the failures.
C3_EntriesAreChipsOfFeatures ==
    getResult.done =>
        LET failing == FailingChips(chips)
            failed == FailedFrom(chips, 1)
        IN /\ (getResult.err = NilErr) <=> (failed = << >>)
           /\ getResult.err # NilErr =>
                /\ getResult.err.kind = "wrapErrors"
                /\ getResult.err.list =
                     [k \in 1..Len(failing) |->
                         wrapError(<<"chip=", Name(chips[failing[k]])>>,
                                   ChipAggregate(chips[failing[k]]))]
                /\ Leaves(getResult.err) = Len(failed)

\* C3 witness: a sweep with failures in two chips
C3_Witness ==
    /\ getResult.done
    /\ getResult.err # NilErr
    /\ Len(getResult.err.list) = 2

StatusCodes == {0, ErrSensorWildcards, ErrSensorAccessR, ErrSensorChipName, ErrSensorIO}

SubTags == {IN_INPUT, TEMP_INPUT, TEMP_TYPE, INTRUSION_ALARM, INTRUSION_BEEP}

\* the causes of the failed features of the world
FailureCauses ==
    LET failed == FailedFrom(chips, 1)
    IN {Sensor(chips[failed[k][1]].feats[failed[k][2]]).err : k \in 1..Len(failed)}

\* C4: for every non-nil error e of Get(), errors.Is(e, ErrSensorAny) holds and
\* errors.As(e, *SensorErr) succeeds; for any other status code K,
\* errors.Is(e, K) holds iff some failed feature's cause has code K, and for a
\* subfeature tag S, errors.Is(e, S) holds iff some cause has tag S.
C4_IsAndAs ==
    (getResult.done /\ getResult.err # NilErr) =>
        LET causes == FailureCauses
            e == getResult.err
        IN /\ ErrorsIs(e, SensorErrCode(ErrSensorAny))
           /\ ErrorsAs(e) # NilErr
           /\ ErrorsAs(e) \in causes
           /\ \A K \in StatusCodes :
                ErrorsIs(e, SensorErrCode(K)) <=> \E cause \in causes : Code(cause) = K
           /\ \A S \in SubTags :
                ErrorsIs(e, SubFeatureErr(S)) <=> \E cause \in causes : SubFeature(cause) = S

\* C4 witness: an aggregate with causes of two status codes
C4_Witness ==
    /\ getResult.done
    /\ getResult.err # NilErr
    /\ \E a, b \in FailureCauses : Code(a) = ErrSensorAccessR /\ Code(b) = 0

\* the feature of the last Sensor() call
CalledFeature == chips[sensorResult.chip].feats[sensorResult.feat]

PrimaryOk(feat) == Len(feat.subs) >= 1 /\ feat.subs[1].cerr = 0

Readable(feat) == {i \in 1..Len(feat.subs) : feat.subs[i].cerr = 0}

Numeric(reading) ==
    reading.kind \in {"TempSensor", "VoltageSensor", "FanSensor", "CurrentSensor"}

Handled == {Temperature, Voltage, Fan, Current, Intrusion}

SecondaryValue(feat, tag) ==
    LET hits == {i \in 1..Len(feat.subs) : feat.subs[i].type = tag}
    IN IF hits = {} THEN 0
       ELSE LET k == CHOOSE i \in hits : \A j \in hits : i <= j
            IN IF feat.subs[k].cerr = 0 THEN feat.subs[k].val ELSE 0

SecondaryOk(feat, tag) ==
    \E i \in 1..Len(feat.subs) :
        /\ feat.subs[i].type = tag
        /\ \A j \in 1..(i - 1) : feat.subs[j].type # tag
        /\ feat.subs[i].cerr = 0

\* C7 (as claimed): for an Intrusion feature whose primary value reads,
\* Sensor() returns an Intrusion sensor, not a nil one, with Alarm() equal to
\* (primary value # 0) and beep equal to (beep value # 0), false when the beep
\* read fails; with alarm and no beep, Rendered() is "false" and Alarm() true.
C7_IntrusionSensorReturned ==
    (sensorResult.done /\ Type(CalledFeature) = Intrusion /\ PrimaryOk(CalledFeature)) =>
        /\ sensorResult.reading.kind = "IntrusionSensor"
        /\ Alarm(sensorResult.reading) = (CalledFeature.subs[1].val # 0)
        /\ sensorResult.reading.Beep = (SecondaryValue(CalledFeature, INTRUSION_BEEP) # 0)
        /\ (Alarm(sensorResult.reading) /\ ~sensorResult.reading.Beep) =>
              Rendered(sensorResult.reading) = "false"

\* C8: the error of Sensor() is that of the primary read alone: for a
\* Temperature or Intrusion feature whose primary value reads, a failed or
\* missing secondary read (temperature type, intrusion beep) gives a nil error
\* and no entry in the aggregate of Get(); the probe type is then Unknown and
\* the primary value is kept.
C8_SecondaryNeverPropagates ==
    /\ sensorResult.done =>
         LET feat == CalledFeature
         IN /\ (sensorResult.err = NilErr) <=> PrimaryOk(feat)
            /\ (PrimaryOk(feat) /\ Type(feat) = Temperature) =>
                 /\ sensorResult.reading.kind = "TempSensor"
                 /\ sensorResult.reading.Value = feat.subs[1].val
                 /\ ~SecondaryOk(feat, TEMP_TYPE) =>
                      sensorResult.reading.TempType = Unknown
                 /\ SecondaryOk(feat, TEMP_TYPE) =>
                      sensorResult.reading.TempType = SecondaryValue(feat, TEMP_TYPE)
    /\ getResult.done =>
         ((\A c \in 1..Len(chips) : \A f \in 1..Len(chips[c].feats) :
              PrimaryOk(chips[c].feats[f]))
          => getResult.err = NilErr)

\* C8 witness: a Temperature feature whose primary value reads and whose type
\* subfeature cannot be read, after Sensor() and Get()
C8_Witness ==
    /\ sensorResult.done
    /\ getResult.done
    /\ Type(CalledFeature) = Temperature
    /\ PrimaryOk(CalledFeature)
    /\ \E i \in 1..Len(CalledFeature.subs) :
          CalledFeature.subs[i].type = TEMP_TYPE /\ CalledFeature.subs[i].cerr # 0
    /\ ~SecondaryOk(CalledFeature, TEMP_TYPE)
    /\ sensorResult.err = NilErr
    /\ getResult.err = NilErr

\* the parts of a name between its dashes
RECURSIVE Parts(_)
Parts(name) ==
    LET dash == IndexOf(name, "-")
    IN IF dash = 0 THEN <<name>>
       ELSE <<SubSeq(name, 1, dash - 1)>> \o Parts(From(name, dash + 1))

\* a part of the name is the wildcard "*"
LeavesUnspecified(name) == \E k \in 1..Len(Parts(name)) : Parts(name)[k] = <<"*">>

NoWildcard(chip) ==
    /\ chip.prefix # NULL
    /\ chip.btype # SENSORS_BUS_TYPE_ANY
    /\ chip.nr # SENSORS_BUS_NR_ANY
    /\ chip.addr # SENSORS_CHIP_NAME_ADDR_ANY

RECURSIVE HexLen(_)
HexLen(n) == IF n < 16 THEN 1 ELSE 1 + HexLen(n \div 16)

AddrWidth(chip) ==
    LET w == IF chip.btype \in {SENSORS_BUS_TYPE_ISA, SENSORS_BUS_TYPE_PCI} THEN 4
             ELSE IF chip.btype = SENSORS_BUS_TYPE_I2C THEN 2 ELSE 1
    IN IF HexLen(chip.addr) > w THEN HexLen(chip.addr) ELSE w

\* the name of a detected chip has its bus number part only for the numbered
\* families and its address in the family's width
WellFormed(chip) ==
    LET parts == Parts(Name(chip))
    IN /\ Len(parts) = IF chip.btype \in Numbered THEN 4 ELSE 3
       /\ parts[1] = chip.prefix
       /\ Len(parts[Len(parts)]) = AddrWidth(chip)
       /\ chip.btype \in Numbered => parts[3] = FormatInt(chip.nr, 10)

\* C10: for every detected chip c of any bus family, with the bus number part
\* only for I2C, SPI, HID and SCSI and the address 4 hex digits wide for ISA
\* and PCI, 2 for I2C and unpadded otherwise, GetChip(c.Name()) returns a nil
\* error and a handle whose Name() is c.Name().
C10_NameRoundTrip ==
    /\ \A c \in 1..Len(chips) : WellFormed(chips[c])
    /\ (lookup.done /\ \E c \in 1..Len(chips) : Name(chips[c]) = lookup.name) =>
          /\ lookup.err = NilErr
          /\ lookup.chip # ZeroChipPtr
          /\ Name(lookup.chip) = lookup.name

\* C10 witness: the name of a detected HID chip is looked up and found
C10_Witness ==
    /\ lookup.done
    /\ \E c \in 1..Len(chips) :
          /\ Name(chips[c]) = lookup.name
          /\ chips[c].btype = SENSORS_BUS_TYPE_HID
          /\ chips[c].nr = 1
    /\ lookup.err = NilErr
    /\ Name(lookup.chip) = lookup.name

\* C11 (as claimed): for every detected chip c, the handle GetChip(c.Name())
\* returns designates the same device: its Path() is c.Path(), also when
\* several detected chips share a prefix and differ in bus number or address.
C11_LookupKeepsPath ==
    lookup.done =>
        \A c \in 1..Len(chips) :
            Name(chips[c]) = lookup.name =>
                /\ lookup.err = NilErr
                /\ Path(lookup.chip) = Path(chips[c])

====
